---- MODULE Spec2Model ----
(***************************************************************************)
(* HealthGuardian AI: the vital-signs monitor agent                        *)
(* (src/agents/vital_signs_monitor.py), the medication manager             *)
(* (src/agents/medication_manager.py) and the startup and shutdown of the  *)
(* four agents (src/main.py).                                              *)
(*                                                                         *)
(* State of the monitor: the configured threshold bands, the per-patient history dict     *)
(* patient_data, the result of the last record_vital_signs call and the    *)
(* analyze_trends coroutine, which suspends once, at the chat-model call.  *)
(*                                                                         *)
(* Temperatures are held in tenths of a degree Celsius (36.1 is 361), so   *)
(* that the float comparisons of the source are integer comparisons.       *)
(* blood_glucose and oxygen_saturation are never read by the agent and are *)
(* left out of a reading.                                                  *)
(***************************************************************************)
EXTENDS Integers, Sequences, FiniteSets, TLC

VARIABLES
    thresholds,     \* self.thresholds: config.get('thresholds', {})
    patient_data,   \* self.patient_data: Dict[str, List[VitalSigns]]
    record_calls,   \* history variable: per patient, the readings of the
                    \* record_vital_signs calls in the order the calls started
    last_record,    \* the outcome of the latest record_vital_signs call
    trends,         \* the analyze_trends coroutine: position, locals, outcome
    active_medications, \* MedicationManager.active_medications, a dict in
                        \* insertion order: a sequence of key-value entries
    jobs,           \* the jobs held by MedicationManager.scheduler
    added,          \* history variable: the add_medication calls, in order
    refills,        \* the outcome of the latest check_refills call
    enabled,        \* agent.config.get('enabled', True), per agent
    is_initialized, \* agent._is_initialized, per agent
    scheduler_running,  \* MedicationManager.scheduler.running
    app             \* the application: its phase and the place of the
                    \* startup or shutdown handler in its loop

monitorVars == <<thresholds, patient_data, record_calls, last_record, trends>>
medicationVars == <<active_medications, jobs, added, refills>>
appVars == <<enabled, is_initialized, scheduler_running, app>>

vars == <<monitorVars, medicationVars, appVars>>

-----------------------------------------------------------------------------
(* Bounds *)

\* Readings recorded in one behaviour, all patients together.
MaxLen == 4

\* add_medication calls in one behaviour.
MaxAdds == 3

-----------------------------------------------------------------------------
(* Python dictionaries *)

\* A key that a configuration dict does not hold.
Absent == <<>>

\* dict.get(key, default) on a configuration dict.
DictGet(d, key, default) ==
    IF d = Absent \/ d[key] = Absent THEN default ELSE d[key]

EmptyDict == [p \in {} |-> <<>>]

-----------------------------------------------------------------------------
(* Defaults of _check_thresholds *)

\* A default band with another upper bound.
DefaultSystolicWide == <<90, 150>>

DefaultSystolic == <<90, 140>>
DefaultDiastolic == <<60, 90>>
DefaultHeartRate == <<60, 100>>
DefaultTemperature == <<361, 378>>

\* The configurations the agent is constructed with: nothing configured,
\* every band configured, and two with only some bands configured.
NoThresholds ==
    [blood_pressure |-> Absent, heart_rate |-> Absent, temperature |-> Absent]

Configs ==
    { NoThresholds,
      [blood_pressure |-> [systolic |-> <<100, 130>>, diastolic |-> <<65, 85>>],
       heart_rate |-> <<50, 110>>, temperature |-> <<360, 375>>],
      [blood_pressure |-> [systolic |-> Absent, diastolic |-> <<65, 85>>],
       heart_rate |-> Absent, temperature |-> <<355, 380>>],
      [blood_pressure |-> [systolic |-> <<85, 150>>, diastolic |-> Absent],
       heart_rate |-> <<59, 101>>, temperature |-> Absent] }

-----------------------------------------------------------------------------
(* Inputs *)

PatientIds == {"p1", "p2", ""}
Timestamps == {1, 2}
Systolics == {85, 89, 90, 140, 141, 150}
Diastolics == {59, 60, 90, 95}
HeartRates == {55, 59, 60, 70, 100, 101, 110}
Temperatures == {355, 360, 361, 370, 378, 379}

\* class VitalSigns
VitalSigns ==
    [patient_id : PatientIds, timestamp : Timestamps,
     blood_pressure_systolic : Systolics,
     blood_pressure_diastolic : Diastolics,
     heart_rate : HeartRates, temperature : Temperatures]

\* The readings of the history behaviours: per timestamp one set of vitals,
\* the first inside every default band, the second outside three of them.
HistoryReadings ==
    { vs \in VitalSigns :
        \/ /\ vs.timestamp = 1
           /\ vs.blood_pressure_systolic = 90
           /\ vs.blood_pressure_diastolic = 60
           /\ vs.heart_rate = 100
           /\ vs.temperature = 370
        \/ /\ vs.timestamp = 2
           /\ vs.blood_pressure_systolic = 150
           /\ vs.blood_pressure_diastolic = 95
           /\ vs.heart_rate = 110
           /\ vs.temperature = 370 }

\* The readings of the threshold behaviours: every combination of vitals.
ThresholdReadings ==
    { vs \in VitalSigns : vs.patient_id = "p1" /\ vs.timestamp = 1 }

Days == {0, 1, 7}

-----------------------------------------------------------------------------
(* _check_thresholds *)

\* The comparison with the bounds excluded from the band.
OutOfRangeExclusive(value, range) == ~(range[1] < value /\ value < range[2])

\* not (range[0] <= value <= range[1])
OutOfRange(value, range) == ~(range[1] <= value /\ value <= range[2])

\* The conditional expression with its two results exchanged.
SeveritySwapped(value, range) == IF value > range[2] THEN "low" ELSE "high"

\* "high" if value > range[1] else "low"
Severity(value, range) == IF value > range[2] THEN "high" ELSE "low"

\* One check of _check_thresholds: the alerts it appends.
Check(type, value, range) ==
    IF OutOfRange(value, range)
    THEN << [type |-> type, value |-> value, threshold |-> range,
             severity |-> Severity(value, range)] >>
    ELSE << >>

SystolicRange(th) ==
    DictGet(DictGet(th, "blood_pressure", Absent), "systolic", DefaultSystolic)

DiastolicRange(th) ==
    DictGet(DictGet(th, "blood_pressure", Absent), "diastolic", DefaultDiastolic)

HeartRateRange(th) == DictGet(th, "heart_rate", DefaultHeartRate)

TemperatureRange(th) == DictGet(th, "temperature", DefaultTemperature)

\* The heart-rate check placed before the blood-pressure check.
_check_thresholds_heart_rate_first(th, vs) ==
    Check("heart_rate", vs.heart_rate, HeartRateRange(th))
    \o Check("blood_pressure_systolic", vs.blood_pressure_systolic,
             SystolicRange(th))
    \o Check("temperature", vs.temperature, TemperatureRange(th))

\* The blood-pressure check with diastolic_range compared as well.
_check_thresholds_with_diastolic(th, vs) ==
    Check("blood_pressure_systolic", vs.blood_pressure_systolic,
          SystolicRange(th))
    \o Check("blood_pressure_diastolic", vs.blood_pressure_diastolic,
             DiastolicRange(th))
    \o Check("heart_rate", vs.heart_rate, HeartRateRange(th))
    \o Check("temperature", vs.temperature, TemperatureRange(th))

\* diastolic_range is looked up and never compared with the reading.
_check_thresholds(th, vs) ==
    Check("blood_pressure_systolic", vs.blood_pressure_systolic,
          SystolicRange(th))
    \o Check("heart_rate", vs.heart_rate, HeartRateRange(th))
    \o Check("temperature", vs.temperature, TemperatureRange(th))

-----------------------------------------------------------------------------
(* record_vital_signs *)

\* The list of the patient assigned anew instead of appended to.
StoreReadingLatestOnly(data, vs) ==
    [p \in DOMAIN data \cup {vs.patient_id} |->
        IF p = vs.patient_id THEN <<vs>> ELSE data[p]]

\* if patient_id not in self.patient_data: self.patient_data[patient_id] = []
\* self.patient_data[patient_id].append(vital_signs)
StoreReading(data, vs) ==
    [p \in DOMAIN data \cup {vs.patient_id} |->
        IF p = vs.patient_id
        THEN IF p \in DOMAIN data THEN Append(data[p], vs) ELSE <<vs>>
        ELSE data[p]]

\* The call as it starts, as the log line at the head of the coroutine
\* reports it: the reading joins the calls made for its patient.
LogCall(calls, vs) ==
    [p \in DOMAIN calls \cup {vs.patient_id} |->
        IF p = vs.patient_id
        THEN IF p \in DOMAIN calls THEN calls[p] \o <<vs>> ELSE <<vs>>
        ELSE calls[p]]

\* The readings stored, all patients together.
TotalLen(data) ==
    LET RECURSIVE Sum(_)
        Sum(S) == IF S = {} THEN 0
                  ELSE LET p == CHOOSE q \in S : TRUE
                       IN Len(data[p]) + Sum(S \ {p})
    IN Sum(DOMAIN data)

\* The coroutine made to wait for a pending analyze_trends, as under one
\* lock held across the chat-model call.
record_vital_signs_locked(vs) ==
    /\ trends.pc # "awaiting"
    /\ TotalLen(patient_data) < MaxLen
    /\ patient_data' = StoreReading(patient_data, vs)
    /\ record_calls' = LogCall(record_calls, vs)
    /\ last_record' = [outcome |-> "return", vital_signs |-> vs,
                       recorded |-> TRUE,
                       alerts |-> _check_thresholds(thresholds, vs),
                       timestamp |-> vs.timestamp]
    /\ UNCHANGED <<thresholds, trends, medicationVars, appVars>>

\* The whole coroutine runs in one step of the event loop: its only await,
\* of _check_thresholds, awaits a coroutine that never suspends.  Nothing
\* validates the reading: an empty patient_id is a str like any other, and
\* the call returns normally.
record_vital_signs(vs) ==
    /\ TotalLen(patient_data) < MaxLen
    /\ patient_data' = StoreReading(patient_data, vs)
    /\ record_calls' = LogCall(record_calls, vs)
    /\ last_record' = [outcome |-> "return", vital_signs |-> vs,
                       recorded |-> TRUE,
                       alerts |-> _check_thresholds(thresholds, vs),
                       timestamp |-> vs.timestamp]
    /\ UNCHANGED <<thresholds, trends, medicationVars, appVars>>

-----------------------------------------------------------------------------
(* analyze_trends *)

NoCall == [outcome |-> "none"]
Idle == [pc |-> "idle"]

\* list[-n:] of Python: the last n elements for n > 0, the whole list for
\* n = 0 (-0 is 0), and the list without its first -n elements for n < 0.
LastSlice(list, n) ==
    IF n > 0
    THEN IF n >= Len(list) THEN list
         ELSE SubSeq(list, Len(list) - n + 1, Len(list))
    ELSE SubSeq(list, 1 - n, Len(list))

\* days*3: "Assuming 3 readings per day"
ReadingsPerDay == 3

\* patient_id not in self.patient_data or not self.patient_data[patient_id]
NoData(data, patient_id) ==
    patient_id \notin DOMAIN data \/ data[patient_id] = << >>

\* The values the prompt is formatted from.
Prompt(recent_readings) ==
    LET latest == recent_readings[Len(recent_readings)]
    IN [readings |-> Len(recent_readings),
        systolic |-> latest.blood_pressure_systolic,
        diastolic |-> latest.blood_pressure_diastolic,
        heart_rate |-> latest.heart_rate,
        temperature |-> latest.temperature]

\* The coroutine from its call to its first suspension: the early return of
\* the error dict, or the chat-model call on the prompt built from the
\* recent readings.
Call(data, patient_id, days) ==
    IF NoData(data, patient_id)
    THEN [pc |-> "done", outcome |-> "return",
          patient_id |-> patient_id, days |-> days, llm_calls |-> 0,
          result |-> [error |-> "No data available"]]
    ELSE LET recent_readings ==
                 LastSlice(data[patient_id], days * ReadingsPerDay)
         IN [pc |-> "awaiting", patient_id |-> patient_id, days |-> days,
             readings_analyzed |-> Len(recent_readings),
             prompt |-> Prompt(recent_readings), llm_calls |-> 1]

analyze_trends_call(patient_id, days) ==
    /\ trends.pc # "awaiting"
    /\ trends' = Call(patient_data, patient_id, days)
    /\ UNCHANGED <<thresholds, patient_data, record_calls, last_record,
                   medicationVars, appVars>>

\* What chain.ainvoke ends with: a message, or the backend's exception.
Replies ==
    { [ok |-> TRUE, content |-> "analysis"],
      [ok |-> FALSE, error |-> "GenerationError"] }

\* The exception caught and turned into an error dict that is returned.
ResumeCatching(t, reply) ==
    [pc |-> "done", outcome |-> "return", patient_id |-> t.patient_id,
     days |-> t.days, llm_calls |-> t.llm_calls, prompt |-> t.prompt,
     reply |-> reply,
     result |-> IF reply.ok
                THEN [patient_id |-> t.patient_id, period_days |-> t.days,
                      readings_analyzed |-> t.readings_analyzed,
                      analysis |-> reply.content]
                ELSE [error |-> reply.error]]

\* The coroutine from the end of the await to its end: the summary is
\* returned, or the exception leaves analyze_trends, which has no handler.
Resume(t, reply) ==
    IF reply.ok
    THEN [pc |-> "done", outcome |-> "return", patient_id |-> t.patient_id,
          days |-> t.days, llm_calls |-> t.llm_calls, prompt |-> t.prompt,
          reply |-> reply,
          result |-> [patient_id |-> t.patient_id,
                      period_days |-> t.days,
                      readings_analyzed |-> t.readings_analyzed,
                      analysis |-> reply.content]]
    ELSE [pc |-> "done", outcome |-> "raise", patient_id |-> t.patient_id,
          days |-> t.days, llm_calls |-> t.llm_calls, prompt |-> t.prompt,
          reply |-> reply, error |-> reply.error]

analyze_trends_resume(reply) ==
    /\ trends.pc = "awaiting"
    /\ trends' = Resume(trends, reply)
    /\ UNCHANGED <<thresholds, patient_data, record_calls, last_record,
                   medicationVars, appVars>>

-----------------------------------------------------------------------------
(* MedicationManager *)

\* Identifiers and names are strings, held as sequences of characters.
\* "p1" is a substring of "p12", and "a" of the medication name "a".
MedPatientIds == { <<"p", "1">>, <<"p", "1", "2">>, <<"a">> }

\* A reminder time "HH:MM" is held as the pair its text parses to:
\* hour, minute = map(int, time.split(':')).
Times == { <<8, 0>>, <<20, 0>> }

\* class Medication.  dosage, frequency and instructions are read only by
\* the reminder text and are left out.  refill_date is in whole days from
\* the datetime.now() of check_refills.
Medications ==
    { [name |-> <<"a">>, times |-> << <<8, 0>> >>, refill_date |-> 3],
      [name |-> <<"a">>, times |-> << <<8, 0>>, <<20, 0>> >>,
       refill_date |-> 30],
      [name |-> <<"b">>, times |-> << <<20, 0>> >>, refill_date |-> 5] }

\* f"{patient_id}_{medication.name}"
MedId(patient_id, name) == patient_id \o <<"_">> \o name

\* sub in s, of two strings
Contains(sub, s) ==
    \E i \in 0..(Len(s) - Len(sub)) : SubSeq(s, i + 1, i + Len(sub)) = sub

\* d[key] = value on a dict: the value of a key it holds is replaced where
\* the key stands, a new key is added at the end.
DictSet(d, key, value) ==
    IF \E i \in DOMAIN d : d[i].key = key
    THEN [i \in DOMAIN d |->
             IF d[i].key = key THEN [key |-> key, value |-> value] ELSE d[i]]
    ELSE Append(d, [key |-> key, value |-> value])

\* The jobs the loop over medication.times adds, one per entry.
ReminderJobs(patient_id, medication) ==
    [k \in DOMAIN medication.times |->
        [func |-> "_send_reminder", trigger |-> "cron",
         hour |-> medication.times[k][1], minute |-> medication.times[k][2],
         args |-> <<patient_id, medication>>]]

\* Nothing is looked up or removed before the jobs are added, and the
\* scheduler takes jobs whether it runs or not.
add_medication(patient_id, medication) ==
    /\ Len(added) < MaxAdds
    /\ active_medications' =
          DictSet(active_medications, MedId(patient_id, medication.name),
                  medication)
    /\ jobs' = jobs \o ReminderJobs(patient_id, medication)
    /\ added' = Append(added, [patient_id |-> patient_id,
                               medication |-> medication])
    /\ UNCHANGED <<refills, monitorVars, appVars>>

\* (med.refill_date - datetime.now()).days
DaysUntilRefill(med) == med.refill_date

\* if days_until_refill <= 7
RefillWindow == 7

\* The loop of check_refills over active_medications.items().
RefillsNeeded(medications, patient_id) ==
    LET Needed(e) == /\ Contains(patient_id, e.key)
                     /\ DaysUntilRefill(e.value) <= RefillWindow
        due == SelectSeq(medications, Needed)
    IN [i \in DOMAIN due |->
           [medication |-> due[i].value.name,
            days_remaining |-> DaysUntilRefill(due[i].value)]]

NoRefills == [outcome |-> "none"]

check_refills(patient_id) ==
    /\ refills' = [outcome |-> "return", patient_id |-> patient_id,
                   result |-> RefillsNeeded(active_medications, patient_id)]
    /\ UNCHANGED <<active_medications, jobs, added, monitorVars, appVars>>

-----------------------------------------------------------------------------
(* Startup and shutdown of the agents *)

\* agents, a dict: its order is the order of the two loops.
Agents ==
    <<"intake", "medication_manager", "vital_signs_monitor", "health_advisor">>

AgentNames == { Agents[i] : i \in DOMAIN Agents }

\* is_healthy of each agent class.
is_healthy(agent) ==
    IF agent = "medication_manager"
    THEN is_initialized[agent] /\ scheduler_running
    ELSE is_initialized[agent]

\* The server calls the startup handler.
startup_event ==
    /\ app.phase = "created"
    /\ app' = [phase |-> "startup", next |-> 1]
    /\ UNCHANGED <<enabled, is_initialized, scheduler_running,
                   monitorVars, medicationVars>>

\* One turn of the loop of startup_event: initialize() of an enabled agent;
\* that of the medication manager starts its scheduler.
startup_initialize ==
    /\ app.phase = "startup"
    /\ app.next \in DOMAIN Agents
    /\ LET agent == Agents[app.next]
       IN IF enabled[agent]
          THEN /\ is_initialized' = [is_initialized EXCEPT ![agent] = TRUE]
               /\ scheduler_running' =
                     IF agent = "medication_manager" THEN TRUE
                     ELSE scheduler_running
          ELSE UNCHANGED <<is_initialized, scheduler_running>>
    /\ app' = [app EXCEPT !.next = @ + 1]
    /\ UNCHANGED <<enabled, monitorVars, medicationVars>>

\* The loop of startup_event is over: the application serves.
startup_done ==
    /\ app.phase = "startup"
    /\ app.next \notin DOMAIN Agents
    /\ app' = [phase |-> "running"]
    /\ UNCHANGED <<enabled, is_initialized, scheduler_running,
                   monitorVars, medicationVars>>

\* The server calls the shutdown handler.
shutdown_event ==
    /\ app.phase = "running"
    /\ app' = [phase |-> "shutdown", next |-> 1]
    /\ UNCHANGED <<enabled, is_initialized, scheduler_running,
                   monitorVars, medicationVars>>

\* scheduler.shutdown() of a scheduler that does not run raises
\* SchedulerNotRunningError, before _is_initialized is assigned.
ShutdownRaises(agent) == agent = "medication_manager" /\ ~scheduler_running

\* One turn of the loop of shutdown_event: shutdown() of the next agent,
\* enabled or not.  An exception of shutdown() is caught nowhere and ends
\* the handler.
shutdown_agent ==
    /\ app.phase = "shutdown"
    /\ app.next \in DOMAIN Agents
    /\ LET agent == Agents[app.next]
       IN IF ShutdownRaises(agent)
          THEN /\ app' = [phase |-> "shutdown_failed",
                          error |-> "SchedulerNotRunningError"]
               /\ UNCHANGED <<is_initialized, scheduler_running>>
          ELSE /\ is_initialized' = [is_initialized EXCEPT ![agent] = FALSE]
               /\ scheduler_running' =
                     IF agent = "medication_manager" THEN FALSE
                     ELSE scheduler_running
               /\ app' = [app EXCEPT !.next = @ + 1]
    /\ UNCHANGED <<enabled, monitorVars, medicationVars>>

\* The loop of shutdown_event is over.
shutdown_done ==
    /\ app.phase = "shutdown"
    /\ app.next \notin DOMAIN Agents
    /\ app' = [phase |-> "stopped"]
    /\ UNCHANGED <<enabled, is_initialized, scheduler_running,
                   monitorVars, medicationVars>>

-----------------------------------------------------------------------------
(* Specifications *)

\* VitalSignsMonitor.__init__
InitMonitor ==
    /\ patient_data = EmptyDict
    /\ record_calls = EmptyDict
    /\ last_record = NoCall
    /\ trends = Idle

\* MedicationManager.__init__
InitMedication ==
    /\ active_medications = << >>
    /\ jobs = << >>
    /\ added = << >>
    /\ refills = NoRefills

\* The agents as constructed, none initialized, and the application before
\* its startup.
InitApp ==
    /\ is_initialized = [a \in AgentNames |-> FALSE]
    /\ scheduler_running = FALSE
    /\ app = [phase |-> "created"]

AllEnabled == [a \in AgentNames |-> TRUE]

Init ==
    /\ thresholds \in Configs
    /\ InitMonitor
    /\ InitMedication
    /\ InitApp
    /\ enabled = AllEnabled

Next ==
    \/ \E vs \in HistoryReadings : record_vital_signs(vs)
    \/ \E p \in PatientIds, days \in Days : analyze_trends_call(p, days)
    \/ \E reply \in Replies : analyze_trends_resume(reply)

Spec == Init /\ [][Next]_vars

\* One reading, of any vitals, checked against any configuration.
NextThresholds ==
    /\ patient_data = EmptyDict
    /\ \E vs \in ThresholdReadings : record_vital_signs(vs)

SpecThresholds == Init /\ [][NextThresholds]_vars

\* The medication manager alone.
InitMedications ==
    /\ thresholds = NoThresholds
    /\ InitMonitor
    /\ InitMedication
    /\ InitApp
    /\ enabled = AllEnabled

NextMedications ==
    \/ \E p \in MedPatientIds, m \in Medications : add_medication(p, m)
    \/ \E p \in MedPatientIds : check_refills(p)

SpecMedications == InitMedications /\ [][NextMedications]_vars

\* The lifecycle of the application, for every choice of enabled agents.
InitLifecycle ==
    /\ thresholds = NoThresholds
    /\ InitMonitor
    /\ InitMedication
    /\ InitApp
    /\ enabled \in [AgentNames -> BOOLEAN]

NextLifecycle ==
    \/ startup_event
    \/ startup_initialize
    \/ startup_done
    \/ shutdown_event
    \/ shutdown_agent
    \/ shutdown_done

SpecLifecycle == InitLifecycle /\ [][NextLifecycle]_vars

-----------------------------------------------------------------------------
(* Vocabulary of the properties *)

\* The vital types that have a band; an alert's type is the name of the
\* field of the reading it is about.
VitalTypes ==
    {"blood_pressure_systolic", "blood_pressure_diastolic", "heart_rate",
     "temperature"}

BandOf(th, type) ==
    CASE type = "blood_pressure_systolic" -> SystolicRange(th)
      [] type = "blood_pressure_diastolic" -> DiastolicRange(th)
      [] type = "heart_rate" -> HeartRateRange(th)
      [] type = "temperature" -> TemperatureRange(th)

WithinBand(value, band) == band[1] <= value /\ value <= band[2]

AlertsOfType(alerts, type) == { i \in DOMAIN alerts : alerts[i].type = type }

HasAlert(alerts, type, severity) ==
    \E i \in DOMAIN alerts :
        alerts[i].type = type /\ alerts[i].severity = severity

\* A record_vital_signs call has returned.
Recorded == last_record.outcome = "return"

\* No band is configured: every band is its default.
DefaultBands == thresholds = NoThresholds

History(p) == IF p \in DOMAIN patient_data THEN patient_data[p] ELSE << >>

CallsFor(p) == IF p \in DOMAIN record_calls THEN record_calls[p] ELSE << >>

IsPrefix(s, t) == Len(s) <= Len(t) /\ SubSeq(t, 1, Len(s)) = s

Min(a, b) == IF a <= b THEN a ELSE b

-----------------------------------------------------------------------------
(* Threshold properties, checked under SpecThresholds *)

\* C1: for every reading and every configuration, each vital type that has
\* a band (systolic, diastolic, heart rate, temperature) gets exactly one
\* alert when its value is outside low <= value <= high and none when it is
\* inside.  The code never compares the diastolic value with its band.
C1_OneAlertPerOutOfBandVital ==
    Recorded =>
        \A type \in VitalTypes :
            Cardinality(AlertsOfType(last_record.alerts, type)) =
                IF WithinBand(last_record.vital_signs[type],
                              BandOf(thresholds, type))
                THEN 0 ELSE 1

\* C2: a reading whose four vitals are all within their bands, the bounds
\* themselves included, is recorded with an empty alert list.
C2_NoAlertsWithinBands ==
    (Recorded /\ \A type \in VitalTypes :
                    WithinBand(last_record.vital_signs[type],
                               BandOf(thresholds, type)))
    => last_record.alerts = << >>

\* A reading on the bounds of the default bands was recorded without alerts.
C2_Witness ==
    /\ Recorded
    /\ DefaultBands
    /\ last_record.vital_signs.blood_pressure_systolic = 140
    /\ last_record.vital_signs.blood_pressure_diastolic = 60
    /\ last_record.vital_signs.heart_rate = 60
    /\ last_record.vital_signs.temperature = 378
    /\ last_record.alerts = << >>

\* C6: under the default bands a reading with systolic above 140 gets an
\* alert of the systolic type (blood_pressure_systolic in the code) with
\* severity high, whatever its other vitals are.
C6_SystolicAbove140IsHigh ==
    (Recorded /\ DefaultBands
        /\ last_record.vital_signs.blood_pressure_systolic > 140)
    => HasAlert(last_record.alerts, "blood_pressure_systolic", "high")

\* Systolic 141 with every other vital out of band too: the systolic alert
\* is there, with the others.
C6_Witness ==
    /\ Recorded
    /\ DefaultBands
    /\ last_record.vital_signs.blood_pressure_systolic = 141
    /\ last_record.vital_signs.heart_rate = 55
    /\ last_record.vital_signs.temperature = 379
    /\ HasAlert(last_record.alerts, "blood_pressure_systolic", "high")
    /\ Len(last_record.alerts) = 3

\* What every alert carries: the observed value and the band it was checked
\* against.
AlertCarriesValueAndBand(a) ==
    /\ a.value = last_record.vital_signs[a.type]
    /\ a.threshold = BandOf(thresholds, a.type)

LowScenario(vs) ==
    /\ vs.blood_pressure_systolic = 85
    /\ vs.heart_rate = 55
    /\ vs.temperature = 355

AllLow(alerts) == \A i \in DOMAIN alerts : alerts[i].severity = "low"

\* C7 as stated: severity high exactly above the upper bound and low exactly
\* below the lower bound; every heart rate below 60 gets a low heart_rate
\* alert; systolic 85, heart rate 55, temperature 35.5 gets three low alerts.
C7_AsStated ==
    Recorded =>
        /\ \A i \in DOMAIN last_record.alerts :
              LET a == last_record.alerts[i]
              IN /\ AlertCarriesValueAndBand(a)
                 /\ a.severity = "high" <=> a.value > a.threshold[2]
                 /\ a.severity = "low" <=> a.value < a.threshold[1]
        /\ last_record.vital_signs.heart_rate < 60
              => HasAlert(last_record.alerts, "heart_rate", "low")
        /\ LowScenario(last_record.vital_signs)
              => Len(last_record.alerts) = 3 /\ AllLow(last_record.alerts)

\* C7, amended: severity is high exactly above the upper bound and low
\* otherwise, which for a band with low <= high is exactly below the lower
\* bound; the two scenarios hold under the default bands.
C7_SeverityFollowsUpperBound ==
    Recorded =>
        /\ \A i \in DOMAIN last_record.alerts :
              LET a == last_record.alerts[i]
              IN /\ AlertCarriesValueAndBand(a)
                 /\ a.severity \in {"high", "low"}
                 /\ a.severity = "high" <=> a.value > a.threshold[2]
                 /\ a.threshold[1] <= a.threshold[2]
                       => (a.severity = "low" <=> a.value < a.threshold[1])
        /\ DefaultBands =>
              /\ last_record.vital_signs.heart_rate < 60
                    => HasAlert(last_record.alerts, "heart_rate", "low")
              /\ LowScenario(last_record.vital_signs)
                    => /\ Len(last_record.alerts) = 3
                       /\ AllLow(last_record.alerts)

\* The low scenario was recorded under the default bands.
C7_Witness ==
    /\ Recorded
    /\ DefaultBands
    /\ LowScenario(last_record.vital_signs)
    /\ Len(last_record.alerts) = 3
    /\ AllLow(last_record.alerts)

-----------------------------------------------------------------------------
(* History and trend properties, checked under Spec *)

\* A step changes no history except by appending, and only the history of
\* the patient of the record_vital_signs call that made the step.
AppendOnlyStep ==
    \A p \in PatientIds :
        /\ IsPrefix(History(p), History(p)')
        /\ History(p)' # History(p) =>
              /\ History(p)' = Append(History(p), last_record'.vital_signs)
              /\ last_record'.vital_signs.patient_id = p

HistoriesMatchCalls == \A p \in PatientIds : History(p) = CallsFor(p)

\* C3: after any sequence of record_vital_signs and analyze_trends calls the
\* history of each patient holds the readings of the record calls made for
\* that patient, as many and in their order; no step removes, reorders or
\* replaces an entry, and a record for one patient leaves every other
\* patient's history as it was.
C3_HistoryAppendOnly == [](HistoriesMatchCalls) /\ [][AppendOnlyStep]_vars

\* Three readings of p1 in their order of recording, beside a history of p2
\* and after an analyze_trends call has ended.
C3_Witness ==
    /\ Len(History("p1")) = 3
    /\ History("p1")[1].timestamp = 2
    /\ History("p1")[2].timestamp = 1
    /\ History("p1")[3].timestamp = 2
    /\ Len(History("p2")) = 1
    /\ trends.pc = "done"

\* An analyze_trends call starts in this step.
TrendsCalled == trends' # trends /\ trends.pc # "awaiting"

\* C4: analyze_trends for a patient without readings fails with
\* NoDataError, an error outcome and no normal result, and the narrative
\* generator is not called.  The code returns a dict, normally.
C4_NoDataIsAnError ==
    [][(TrendsCalled /\ History(trends'.patient_id) = << >>)
         => /\ trends'.pc = "done"
            /\ trends'.llm_calls = 0
            /\ trends'.outcome = "raise"
            /\ trends'.error = "NoDataError"]_vars

\* C5: a reading with an empty patient identifier is rejected with a
\* validation error, and no history exists for the empty identifier.  The
\* code stores the reading and returns normally.
C5_EmptyPatientIdRejected ==
    /\ History("") = << >>
    /\ (last_record.outcome # "none"
            /\ last_record.vital_signs.patient_id = "")
          => last_record.outcome = "raise"

\* C8: for a history of length L > 0 and windowDays >= 0 the readings
\* analyzed are min(L, 3 * windowDays), the window reported is windowDays,
\* and the generator is given the values of the last recorded reading.  With
\* windowDays = 0 the code analyzes the whole history.
C8_WindowOfRecentReadings ==
    /\ [][(TrendsCalled /\ History(trends'.patient_id) # << >>)
            => LET history == History(trends'.patient_id)
                   latest == history[Len(history)]
               IN /\ trends'.pc = "awaiting"
                  /\ trends'.readings_analyzed =
                        Min(Len(history), 3 * trends'.days)
                  /\ trends'.prompt.readings = trends'.readings_analyzed
                  /\ trends'.prompt.systolic = latest.blood_pressure_systolic
                  /\ trends'.prompt.diastolic
                        = latest.blood_pressure_diastolic
                  /\ trends'.prompt.heart_rate = latest.heart_rate
                  /\ trends'.prompt.temperature = latest.temperature]_vars
    /\ [][(trends.pc = "awaiting" /\ trends'.pc = "done"
              /\ trends'.outcome = "return")
            => /\ trends'.result.readings_analyzed = trends.readings_analyzed
               /\ trends'.result.period_days = trends.days
               /\ trends'.result.analysis = trends'.reply.content]_vars

\* C9: under every interleaving of record_vital_signs steps with a suspended
\* analyze_trends, the history of each patient is the sequence of the record
\* calls made for it, none lost, none twice, in the order the calls started;
\* and while one patient's narrative is awaited a record, for any patient,
\* can run to its end.
C9_RecordsSerializeAndNeverBlock ==
    /\ HistoriesMatchCalls
    /\ (trends.pc = "awaiting" /\ TotalLen(patient_data) < MaxLen)
          => \A vs \in HistoryReadings : ENABLED record_vital_signs(vs)

\* While the narrative for p1 is awaited, begun on one reading, two more
\* records for p1 and one for p2 have completed.
C9_Witness ==
    /\ trends.pc = "awaiting"
    /\ trends.patient_id = "p1"
    /\ trends.days = 7
    /\ trends.readings_analyzed = 1
    /\ Len(History("p1")) = 3
    /\ Len(History("p2")) = 1
    /\ History("p1")[2].timestamp # History("p1")[3].timestamp

\* The generator's failure leaves analyze_trends as it came: raised, the
\* same error, after one call of the generator.
FailurePropagates ==
    (trends.pc = "done" /\ trends.llm_calls > 0 /\ ~trends.reply.ok)
    => /\ trends.outcome = "raise"
       /\ trends.error = trends.reply.error
       /\ trends.llm_calls = 1

\* C10: a GenerationError of the narrative generator reaches the caller of
\* analyze_trends unchanged, neither caught nor wrapped nor retried nor
\* returned, and no step of analyze_trends, succeeding or failing, changes
\* a history.
C10_GenerationErrorPropagates ==
    [](FailurePropagates) /\ [][trends' # trends
                                   => patient_data' = patient_data]_vars

\* An analysis of a patient with readings ended with the GenerationError.
C10_Witness ==
    /\ trends.pc = "done"
    /\ trends.outcome = "raise"
    /\ trends.error = "GenerationError"
    /\ Len(History(trends.patient_id)) = 2

-----------------------------------------------------------------------------
(* Order of the alerts and the diastolic band, checked under SpecThresholds *)

EvaluationOrder == <<"blood_pressure_systolic", "heart_rate", "temperature">>

\* The place of a type in the evaluation order, 0 for a type not in it.
Place(type) ==
    IF \E k \in DOMAIN EvaluationOrder : EvaluationOrder[k] = type
    THEN CHOOSE k \in DOMAIN EvaluationOrder : EvaluationOrder[k] = type
    ELSE 0

\* C11: the alerts of one reading are a subsequence of systolic, heart rate,
\* temperature: every alert is of one of the three types and the types come
\* in strictly increasing place, so heart rate never precedes systolic and
\* temperature is last.
C11_AlertsInEvaluationOrder ==
    Recorded =>
        /\ \A i \in DOMAIN last_record.alerts :
              Place(last_record.alerts[i].type) > 0
        /\ \A i, j \in DOMAIN last_record.alerts :
              i < j => Place(last_record.alerts[i].type)
                          < Place(last_record.alerts[j].type)

\* A reading with all three alerts, in the order of evaluation.
C11_Witness ==
    /\ Recorded
    /\ Len(last_record.alerts) = 3
    /\ last_record.alerts[1].type = "blood_pressure_systolic"
    /\ last_record.alerts[2].type = "heart_rate"
    /\ last_record.alerts[3].type = "temperature"

DiastolicScenario(vs) ==
    /\ vs.blood_pressure_systolic = 150
    /\ vs.blood_pressure_diastolic = 95
    /\ vs.heart_rate = 110
    /\ vs.temperature = 370

\* C12: the diastolic value decides nothing: the alerts of a reading are
\* those of the same reading with any other diastolic value, no alert is of
\* the diastolic type, and under the default bands systolic 150, diastolic
\* 95, heart rate 110, temperature 37.0 gets exactly systolic/high then
\* heart_rate/high.
C12_DiastolicNeverChecked ==
    Recorded =>
        /\ \A d \in Diastolics :
              _check_thresholds(thresholds,
                  [last_record.vital_signs
                      EXCEPT !.blood_pressure_diastolic = d])
                = last_record.alerts
        /\ AlertsOfType(last_record.alerts, "blood_pressure_diastolic") = {}
        /\ (DefaultBands /\ DiastolicScenario(last_record.vital_signs))
              => /\ Len(last_record.alerts) = 2
                 /\ last_record.alerts[1].type = "blood_pressure_systolic"
                 /\ last_record.alerts[1].severity = "high"
                 /\ last_record.alerts[2].type = "heart_rate"
                 /\ last_record.alerts[2].severity = "high"

\* The scenario was recorded under the default bands: diastolic 95 is
\* outside [60, 90] and two alerts came back.
C12_Witness ==
    /\ Recorded
    /\ DefaultBands
    /\ DiastolicScenario(last_record.vital_signs)
    /\ ~WithinBand(last_record.vital_signs.blood_pressure_diastolic,
                   DiastolicRange(thresholds))
    /\ Len(last_record.alerts) = 2

-----------------------------------------------------------------------------
(* Medication properties, checked under SpecMedications *)

\* C13: check_refills(P) reports only medications that add_medication was
\* called with for P: every entry of its result is the name and the days of
\* a medication added for P itself.  The code selects by `patient_id in
\* med_id`, a substring test on "<patient>_<name>".
C13_RefillsOnlyOfOwnMedications ==
    refills.outcome = "return" =>
        \A i \in DOMAIN refills.result :
            \E k \in DOMAIN added :
                /\ added[k].patient_id = refills.patient_id
                /\ added[k].medication.name = refills.result[i].medication
                /\ DaysUntilRefill(added[k].medication)
                      = refills.result[i].days_remaining

\* The jobs that remind of entry e of active_medications at its k-th time.
JobsOf(e, k) ==
    { j \in DOMAIN jobs :
        /\ MedId(jobs[j].args[1], jobs[j].args[2].name) = e.key
        /\ jobs[j].args[2] = e.value
        /\ jobs[j].hour = e.value.times[k][1]
        /\ jobs[j].minute = e.value.times[k][2] }

\* C14: the reminder jobs are, one to one, the pairs of a tracked medication
\* and one of its times: each such pair has exactly one job and every job
\* is that of such a pair, also after the same patient and name were added
\* again.  The code adds jobs on every call and removes none.
C14_OneJobPerTrackedTime ==
    /\ \A i \in DOMAIN active_medications :
          \A k \in DOMAIN active_medications[i].value.times :
              Cardinality(JobsOf(active_medications[i], k)) = 1
    /\ \A j \in DOMAIN jobs :
          \E i \in DOMAIN active_medications :
              \E k \in DOMAIN active_medications[i].value.times :
                  j \in JobsOf(active_medications[i], k)

-----------------------------------------------------------------------------
(* Shutdown property, checked under SpecLifecycle *)

\* The shutdown handler has run, to its end or to an exception.
ShutdownRan == app.phase \in {"stopped", "shutdown_failed"}

\* C15: whatever agents were enabled, once the shutdown handler has run no
\* agent reports is_healthy(), a failure of one agent's shutdown() included.
\* The code leaves the loop at the exception of a medication manager that
\* was never initialized, with the agents after it still initialized.
C15_NoAgentHealthyAfterShutdown ==
    ShutdownRan => \A a \in AgentNames : ~is_healthy(a)

====
